---- MODULE Spec2Model ----
(***************************************************************************)
(* Model of chemdataextractor/parse/units/unit.py: the Unit value type,    *)
(* its operators (__pow__, __mul__, __truediv__, __eq__, __hash__), the    *)
(* MetaUnit decimal-scale wrapper, the value conversions, the UnitType     *)
(* field and Unit.composite_unit.                                          *)
(*                                                                         *)
(* A unit object is a record                                               *)
(*   [cls, dimensions, exponent, hasPowers, powers, addr]                  *)
(* cls is the name of the concrete class, hasPowers = FALSE stands for     *)
(* powers = None, and powers is the dict as the sequence of its entries    *)
(* [key, val] in insertion order.  A key is itself a unit object; addr is  *)
(* its address (what the default repr prints), 0 where no code reads it.   *)
(* Addresses are opaque: the state keeps them up to renaming.              *)
(* Floats are modelled by integers (exponents, powers) and by exact        *)
(* rationals (converted values).                                           *)
(***************************************************************************)
EXTENDS Integers, Sequences, FiniteSets, TLC

\* ------------------------------------------------------------------ bounds
MaxExp == 1
MaxPow == 1
MaxN == 2
MaxVal == 2

Exps == (0 - MaxExp)..MaxExp
PowArgs == (0 - MaxN)..MaxN

\* -------------------------------------------------------------- dimensions
\* dimensions.py is not part of the sources: a Dimension is its canonical
\* composition map, base dimension -> exponent, Dimensionless the empty one.
BaseDims == {"Length", "Time", "Temperature"}

Dimensionless == [d \in BaseDims |-> 0]

BaseDim(name) == [d \in BaseDims |-> IF d = name THEN 1 ELSE 0]

DimMul(a, b) == [d \in BaseDims |-> a[d] + b[d]]

DimPow(a, n) == [d \in BaseDims |-> a[d] * n]

DimEq(a, b) == a = b

\* ------------------------------------------------------------ constructors
NoPowers == << >>

UnitInit(cls, dimensions, exponent, hasPowers, powers) ==
    [cls |-> cls, dimensions |-> dimensions, exponent |-> exponent,
     hasPowers |-> hasPowers, powers |-> powers, addr |-> 0]

DimensionlessUnitInit(exponent) ==
    [cls |-> "DimensionlessUnit", dimensions |-> Dimensionless,
     exponent |-> exponent, hasPowers |-> FALSE, powers |-> NoPowers,
     addr |-> 0]

\* The base units the class docstring names, and an offset-scale unit.
BaseClasses == {"Meter", "Second"}

ClassDim(cls) ==
    CASE cls = "Meter" -> BaseDim("Length")
      [] cls = "Second" -> BaseDim("Time")
      [] cls = "Celsius" -> BaseDim("Temperature")
      [] OTHER -> Dimensionless

BaseUnit(cls, exponent) ==
    IF cls = "DimensionlessUnit" THEN DimensionlessUnitInit(exponent)
    ELSE UnitInit(cls, ClassDim(cls), exponent, FALSE, NoPowers)

\* `if self.powers:` -- None and the empty dict are both false
Truthy(u) == u.hasPowers /\ Len(u.powers) > 0

IsDimensionlessUnit(u) == u.cls = "DimensionlessUnit"

\* copy.deepcopy(u) followed by .exponent = 0.0; the copy lives at address a
Normalise(u, a) == [u EXCEPT !.exponent = 0, !.addr = a]

\* --------------------------------------------------------------- __hash__
\* The string that __hash__ hashes; equal strings are taken to be equal
\* hashes and different strings different hashes.  str(None) is "None";
\* str(dict) prints the entries in insertion order, each key by the default
\* repr "<... cls object at addr>".
PowersRepr(u) ==
    [isNone |-> ~u.hasPowers,
     items |-> [i \in 1..Len(u.powers) |->
                  <<u.powers[i].key.cls, u.powers[i].key.addr, u.powers[i].val>>]]

Hash(u) ==
    [name |-> u.cls, dimensions |-> u.dimensions, exponent |-> u.exponent,
     powers |-> PowersRepr(u)]

\* ----------------------------------------------------- dict with Unit keys
\* Key comparison of a dict lookup: equal hash and ==.  Keys are units
\* without powers, for which == is the last branch of __eq__.
KeyMatch(k1, k2) ==
    /\ Hash(k1) = Hash(k2)
    /\ ~Truthy(k1) /\ ~Truthy(k2)
    /\ k1.cls = k2.cls /\ k1.exponent = k2.exponent
    /\ DimEq(k1.dimensions, k2.dimensions)

InDict(d, k) == \E i \in 1..Len(d) : KeyMatch(d[i].key, k)

DictIndex(d, k) == CHOOSE i \in 1..Len(d) : KeyMatch(d[i].key, k)

DictGet(d, k) == d[DictIndex(d, k)].val

\* d[k] = v: an existing entry keeps its key object and its position
DictSet(d, k, v) ==
    IF InDict(d, k)
    THEN [d EXCEPT ![DictIndex(d, k)].val = v]
    ELSE Append(d, [key |-> k, val |-> v])

DictPop(d, k) ==
    LET j == DictIndex(d, k)
    IN [i \in 1..(Len(d) - 1) |-> IF i < j THEN d[i] ELSE d[i + 1]]

\* dict == dict: same size, every key of one found in the other, same value
DictEq(d1, d2) ==
    /\ Len(d1) = Len(d2)
    /\ \A i \in 1..Len(d1) :
          InDict(d2, d1[i].key) /\ DictGet(d2, d1[i].key) = d1[i].val

\* ---------------------------------------------------------------- __pow__
\* Pow with the entry of a bare unit given the power 1.0, as __mul__ gives it.
PowBareAsOne(self, other, a) ==
    IF IsDimensionlessUnit(self) \/ other = 0
    THEN DimensionlessUnitInit(self.exponent * other)
    ELSE IF Truthy(self)
    THEN UnitInit("Unit", DimPow(self.dimensions, other), self.exponent * other, TRUE,
                  [i \in 1..Len(self.powers) |->
                      [key |-> self.powers[i].key, val |-> self.powers[i].val * other]])
    ELSE UnitInit("Unit", DimPow(self.dimensions, other), self.exponent * other, TRUE,
                  << [key |-> Normalise(self, a), val |-> 1] >>)

\* self ** other; a is the address of the key object a bare unit is copied to
Pow(self, other, a) ==
    IF IsDimensionlessUnit(self) \/ other = 0
    THEN DimensionlessUnitInit(self.exponent * other)
    ELSE IF Truthy(self)
    THEN UnitInit("Unit", DimPow(self.dimensions, other), self.exponent * other, TRUE,
                  [i \in 1..Len(self.powers) |->
                      [key |-> self.powers[i].key, val |-> self.powers[i].val * other]])
    ELSE UnitInit("Unit", DimPow(self.dimensions, other), self.exponent * other, TRUE,
                  << [key |-> Normalise(self, a), val |-> other] >>)

\* ---------------------------------------------------------------- __mul__
\* First half (self): the entries of powers and of normalised_values.
MulSelfPart(self, a) ==
    IF Truthy(self)
    THEN [powers |-> self.powers,
          nv |-> [i \in 1..Len(self.powers) |->
                    [key |-> Normalise(self.powers[i].key, 0),
                     val |-> self.powers[i].key.exponent]]]
    ELSE IF ~IsDimensionlessUnit(self)
    THEN [powers |-> << [key |-> Normalise(self, a), val |-> 1] >>,
          nv |-> << [key |-> Normalise(self, a), val |-> self.exponent] >>]
    ELSE [powers |-> << >>, nv |-> << >>]

\* Second half, other has powers: the loop over other.powers from entry i.
\* acc = [powers, raised, next]; next is the next free address.
RECURSIVE MulOtherLoop(_, _, _, _)
MulOtherLoop(acc, nv, items, i) ==
    IF i > Len(items) \/ acc.raised THEN acc
    ELSE LET key == items[i].key
             value == items[i].val
             normalised_key == Normalise(key, acc.next)
         IN IF InDict(nv, normalised_key)
            THEN IF ~InDict(acc.powers, key)
                 THEN [acc EXCEPT !.raised = TRUE]
                 ELSE LET sum == DictGet(acc.powers, key) + value
                          added == DictSet(acc.powers, key, sum)
                      IN MulOtherLoop(
                           [acc EXCEPT !.powers = IF sum = 0 THEN DictPop(added, key)
                                                  ELSE added],
                           nv, items, i + 1)
            ELSE MulOtherLoop(
                   [acc EXCEPT !.powers = DictSet(acc.powers, normalised_key, value),
                               !.next = acc.next + 1],
                   nv, items, i + 1)

\* Second half, other is a bare unit.
MulOtherBare(acc, nv, other) ==
    IF IsDimensionlessUnit(other) THEN acc
    ELSE LET normalised_other == Normalise(other, acc.next)
         IN IF InDict(nv, normalised_other)
            THEN IF ~InDict(acc.powers, normalised_other)
                 THEN [acc EXCEPT !.raised = TRUE]
                 ELSE LET sum == DictGet(acc.powers, normalised_other) + 1
                          added == DictSet(acc.powers, normalised_other, sum)
                      IN IF sum = 0
                         THEN IF InDict(added, other)
                              THEN [acc EXCEPT !.powers = DictPop(added, other)]
                              ELSE [acc EXCEPT !.raised = TRUE]
                         ELSE [acc EXCEPT !.powers = added]
            ELSE [acc EXCEPT !.powers = DictSet(acc.powers, normalised_other, 1),
                             !.next = acc.next + 1]

MulMerge(self, other, a) ==
    LET first == MulSelfPart(self, a)
        acc == [powers |-> first.powers, raised |-> FALSE, next |-> a + 1]
    IN IF Truthy(other)
       THEN MulOtherLoop(acc, first.nv, other.powers, 1)
       ELSE MulOtherBare(acc, first.nv, other)

\* TRUE when self * other ends in a KeyError
MulRaises(self, other) == MulMerge(self, other, 1).raised

\* Mul without the return of DimensionlessUnit for an empty dict
MulKeepsEmptyDict(self, other, a) ==
    UnitInit("Unit", DimMul(self.dimensions, other.dimensions),
             self.exponent + other.exponent, TRUE, MulMerge(self, other, a).powers)

\* self * other, when it does not raise
Mul(self, other, a) ==
    LET dimensions == DimMul(self.dimensions, other.dimensions)
        exponent == self.exponent + other.exponent
        powers == MulMerge(self, other, a).powers
    IN IF Len(powers) = 0
       THEN DimensionlessUnitInit(exponent)
       ELSE UnitInit("Unit", dimensions, exponent, TRUE, powers)

\* ------------------------------------------------------------ __truediv__
DivRaises(self, other) == MulRaises(self, Pow(other, -1, 1))

Div(self, other, a) == Mul(self, Pow(other, -1, a), a + 1)

\* ----------------------------------------------------------------- __eq__
\* The method, self.__eq__(other), other a Unit.  Line 273 compares a dict
\* with a Dimension object, which is never equal.
Eq(self, other) ==
    IF Truthy(self)
    THEN IF Truthy(other)
         THEN DictEq(self.powers, other.powers) /\ self.exponent = other.exponent
         ELSE LET raised == Pow(other, 1, 1)
              IN raised.hasPowers /\ DictEq(self.powers, raised.powers)
    ELSE IF Truthy(other)
    THEN FALSE
    ELSE /\ self.cls = other.cls
         /\ self.exponent = other.exponent
         /\ DimEq(self.dimensions, other.dimensions)

\* Every unit class derives from Unit; composites built by the operators
\* are instances of Unit itself.
IsProperSubclass(sub, base) == base = "Unit" /\ sub # "Unit"

\* The expression a == b: when type(b) is a proper subclass of type(a) the
\* interpreter calls b.__eq__(a) first, and __eq__ never answers
\* NotImplemented, so that call decides.
Equals(a, b) ==
    IF IsProperSubclass(b.cls, a.cls) THEN Eq(b, a) ELSE Eq(a, b)

\* A unit declared by hand as in the class docstring: class SpeedUnit(Unit)
\* whose __init__ passes Length()/Time() and {Meter(): 1.0, Second(): -1.0}
\* and leaves the exponent at its default.
SpeedUnitInit(a) ==
    [UnitInit("SpeedUnit", DimMul(BaseDim("Length"), DimPow(BaseDim("Time"), -1)), 0, TRUE,
              << [key |-> Normalise(BaseUnit("Meter", 0), a), val |-> 1],
                 [key |-> Normalise(BaseUnit("Second", 0), a + 1), val |-> -1] >>)
     EXCEPT !.cls = "SpeedUnit"]

\* ------------------------------------------------------------------ state
\* x, y: two unit objects the program holds; last: the operator applied
\* last and whether it raised.
\* pw: the evaluation of (u ** m) ** n, [u, m, n, r, pc].
\* fld: a record with a declared dimension and one UnitType field,
\*      [dimensions, assigned, stored, before].
\* conv: a conversion call on a base unit, [u, v, r, raised, op].
\* comp: Unit.composite_unit(w) and one instantiation of the class it made.
\* chain: a conversion call on an instance of a subclass that inherits the
\*        formula, [u, v, r, depth, op].
\* mem: unit objects by address with two of them as operands,
\*      [heap, x, y, op, ops]; ops counts the operators applied.
\* eqs: the two comparisons a == b and b == a, [a, b, ab, ba, pc].
VARIABLES x, y, last, pw, fld, conv, comp, chain, mem, eqs

vars == <<x, y, last, pw, fld, conv, comp, chain, mem, eqs>>

IdleUnit == DimensionlessUnitInit(0)

AlgebraIdle ==
    /\ x = IdleUnit
    /\ y = IdleUnit
    /\ last = [op |-> "init", raised |-> FALSE]

PwIdle == pw = [u |-> IdleUnit, m |-> 0, n |-> 0, r |-> IdleUnit, pc |-> "idle"]

\* A value that can be assigned to a field: a Unit, an object that is not a
\* Unit but has a dimensions attribute, an object without one, or None.
UnitValue(u) == [kind |-> "Unit", u |-> u]

DimensionedValue(d) == [kind |-> "Dimensioned", u |-> [IdleUnit EXCEPT !.dimensions = d]]

PlainValue == [kind |-> "Plain", u |-> IdleUnit]

None == [kind |-> "None", u |-> IdleUnit]

FldIdle ==
    fld = [dimensions |-> Dimensionless, assigned |-> None, stored |-> None,
           before |-> None]

\* Rationals are pairs <<numerator, denominator>> in lowest terms.
Zero == <<0, 1>>

ConvIdle == conv = [u |-> IdleUnit, v |-> Zero, r |-> Zero, raised |-> FALSE, op |-> "idle"]

\* The attributes Unit.__init__ sets on an object, none of them set yet.
NoAttributes == [set |-> FALSE, dimensions |-> Dimensionless, exponent |-> 0,
                 hasPowers |-> FALSE, powers |-> NoPowers]

CompIdle ==
    comp = [w |-> IdleUnit, arg |-> 0, default |-> TRUE, self |-> NoAttributes,
            onDimension |-> [NoAttributes EXCEPT !.dimensions = 0], pc |-> "idle"]

ChainIdle == chain = [u |-> IdleUnit, v |-> Zero, r |-> Zero, depth |-> 1, op |-> "idle"]

MemIdle == mem = [heap |-> << >>, x |-> 0, y |-> 0, op |-> "idle", ops |-> 0]

EqsIdle == eqs = [a |-> IdleUnit, b |-> IdleUnit, ab |-> FALSE, ba |-> FALSE, pc |-> "idle"]

\* Addresses of the key objects two units hold, in order of appearance.
KeyAddrs(u) == [i \in 1..Len(u.powers) |-> u.powers[i].key.addr]

AddrRank(s, a) ==
    LET first == CHOOSE i \in 1..Len(s) : s[i] = a /\ \A j \in 1..(i - 1) : s[j] # a
    IN Cardinality({s[j] : j \in 1..first})

\* u with every key address replaced by its rank in s
Rename(u, s) ==
    [u EXCEPT !.powers = [i \in 1..Len(u.powers) |->
                            [u.powers[i] EXCEPT !.key.addr = AddrRank(s, @)]]]

\* An address no live key object has.
FreeAddr == Len(KeyAddrs(x)) + Len(KeyAddrs(y)) + 1

Abs(n) == IF n < 0 THEN 0 - n ELSE n

InBounds(u) ==
    /\ Abs(u.exponent) <= MaxExp
    /\ \A i \in 1..Len(u.powers) : Abs(u.powers[i].val) <= MaxPow

Store(r, other, op) ==
    /\ InBounds(r)
    /\ x' = Rename(r, KeyAddrs(r) \o KeyAddrs(other))
    /\ y' = Rename(other, KeyAddrs(r) \o KeyAddrs(other))
    /\ last' = [op |-> op, raised |-> FALSE]
    /\ UNCHANGED <<pw, fld, conv, comp, chain, mem, eqs>>

Raise(op) ==
    /\ last' = [op |-> op, raised |-> TRUE]
    /\ UNCHANGED <<x, y, pw, fld, conv, comp, chain, mem, eqs>>

\* ---------------------------------------------------------------- actions
\* y = Meter(e), Second(e) or DimensionlessUnit(e)
Load(cls, e) ==
    /\ x' = x
    /\ y' = BaseUnit(cls, e)
    /\ last' = [op |-> "load", raised |-> FALSE]
    /\ UNCHANGED <<pw, fld, conv, comp, chain, mem, eqs>>

\* y = SpeedUnit()
Declare ==
    /\ x' = x
    /\ y' = Rename(SpeedUnitInit(FreeAddr), KeyAddrs(x) \o KeyAddrs(SpeedUnitInit(FreeAddr)))
    /\ last' = [op |-> "declare", raised |-> FALSE]
    /\ UNCHANGED <<pw, fld, conv, comp, chain, mem, eqs>>

\* y = x: the second operand becomes the same object as the first
Dup ==
    /\ y' = x
    /\ x' = x
    /\ last' = [op |-> "dup", raised |-> FALSE]
    /\ UNCHANGED <<pw, fld, conv, comp, chain, mem, eqs>>

\* x, y = y, x
Swap ==
    /\ Store(y, x, "swap")

\* x = x * y
DoMul ==
    IF MulRaises(x, y) THEN Raise("mul") ELSE Store(Mul(x, y, FreeAddr), y, "mul")

\* x = x / y
DoDiv ==
    IF DivRaises(x, y) THEN Raise("div") ELSE Store(Div(x, y, FreeAddr), y, "div")

\* x = x ** n
DoPow(n) ==
    Store(Pow(x, n, FreeAddr), y, "pow")

LoadClasses == BaseClasses \cup {"DimensionlessUnit"}

Init ==
    /\ x \in {BaseUnit(c, e) : c \in LoadClasses, e \in Exps}
    /\ y \in {BaseUnit(c, e) : c \in LoadClasses, e \in Exps}
    /\ last = [op |-> "init", raised |-> FALSE]
    /\ PwIdle /\ FldIdle /\ ConvIdle /\ CompIdle
    /\ ChainIdle /\ MemIdle /\ EqsIdle

Next ==
    \/ \E c \in LoadClasses, e \in Exps : Load(c, e)
    \/ Declare
    \/ Dup
    \/ Swap
    \/ DoMul
    \/ DoDiv
    \/ \E n \in PowArgs : DoPow(n)

Spec == Init /\ [][Next]_vars

TypeOK == InBounds(x) /\ InBounds(y)

\* --------------------------------------------- (u ** m) ** n, step by step
BareUnits == {BaseUnit(c, e) : c \in LoadClasses, e \in Exps}

NonZeroPowers == ((0 - MaxPow)..MaxPow) \ {0}

\* One base unit raised to a power, and products of two of those.
SingleUnits == {Pow(b, k, 1) : b \in {u \in BareUnits : ~IsDimensionlessUnit(u)},
                               k \in NonZeroPowers}

ProductUnits == {Mul(a, b, 2) : a \in SingleUnits, b \in SingleUnits}

PowerOperands == BareUnits \cup SingleUnits \cup ProductUnits \cup {SpeedUnitInit(1)}

PowerInit ==
    /\ pw \in {[u |-> u, m |-> m, n |-> n, r |-> u, pc |-> "start"] :
                 u \in PowerOperands, m \in PowArgs, n \in PowArgs}
    /\ AlgebraIdle /\ FldIdle /\ ConvIdle /\ CompIdle
    /\ ChainIdle /\ MemIdle /\ EqsIdle

\* r = u ** m
PowFirst ==
    /\ pw.pc = "start"
    /\ pw' = [pw EXCEPT !.r = Pow(pw.u, pw.m, Len(pw.u.powers) + 1), !.pc = "first"]
    /\ UNCHANGED <<x, y, last, fld, conv, comp, chain, mem, eqs>>

\* r = r ** n
PowSecond ==
    /\ pw.pc = "first"
    /\ pw' = [pw EXCEPT !.r = Pow(pw.r, pw.n, Len(pw.r.powers) + 1), !.pc = "second"]
    /\ UNCHANGED <<x, y, last, fld, conv, comp, chain, mem, eqs>>

PowerNext == PowFirst \/ PowSecond

SpecPower == PowerInit /\ [][PowerNext]_vars

\* ------------------------------------------------------ UnitType.__set__
HasDimensionsAttr(value) == value.kind \in {"Unit", "Dimensioned"}

\* UnitType.process
Process(value) == IF value.kind = "Unit" THEN value ELSE None

\* __set__ without the comparison of dimensions, as BaseType.__set__ has it
UnitTypeSetUnchecked(instanceDimensions, value) == Process(value)

\* What __set__ leaves in instance._values[self.name]
UnitTypeSet(instanceDimensions, value) ==
    IF HasDimensionsAttr(value)
    THEN IF DimEq(value.u.dimensions, instanceDimensions)
         THEN Process(value)
         ELSE None
    ELSE None

FieldDimensions == {BaseDim("Length"), BaseDim("Time"), Dimensionless}

AssignableValues ==
    {UnitValue(u) : u \in BareUnits \cup SingleUnits \cup {SpeedUnitInit(1)}}
    \cup {DimensionedValue(d) : d \in FieldDimensions}
    \cup {PlainValue, None}

FieldInit ==
    /\ fld \in {[dimensions |-> d, assigned |-> None, stored |-> None, before |-> None] :
                  d \in FieldDimensions}
    /\ AlgebraIdle /\ PwIdle /\ ConvIdle /\ CompIdle
    /\ ChainIdle /\ MemIdle /\ EqsIdle

\* instance.field = value
Assign(value) ==
    /\ fld' = [fld EXCEPT !.assigned = value,
                          !.stored = UnitTypeSet(fld.dimensions, value),
                          !.before = fld.stored]
    /\ UNCHANGED <<x, y, last, pw, conv, comp, chain, mem, eqs>>

FieldNext == \E value \in AssignableValues : Assign(value)

SpecField == FieldInit /\ [][FieldNext]_vars

\* ------------------------------------------------------------ conversions
RECURSIVE Gcd(_, _)
Gcd(a, b) == IF b = 0 THEN a ELSE Gcd(b, a % b)

Rat(n, d) ==
    LET g == Gcd(Abs(n), Abs(d))
        sign == IF d < 0 THEN -1 ELSE 1
    IN <<(sign * n) \div g, (sign * d) \div g>>

RatMul(a, b) == Rat(a[1] * b[1], a[2] * b[2])

RatAdd(a, b) == Rat(a[1] * b[2] + b[1] * a[2], a[2] * b[2])

RECURSIVE TenTo(_)
TenTo(k) == IF k = 0 THEN 1 ELSE 10 * TenTo(k - 1)

\* 10 ** e
Pow10(e) == IF e >= 0 THEN <<TenTo(e), 1>> ELSE <<1, TenTo(0 - e)>>

\* The formula a concrete base unit defines, before MetaUnit wraps it:
\* DimensionlessUnit's is the identity; Minute stands for a unit with a
\* multiplicative formula and Celsius for one with an offset.
RawToStandard(cls, value) ==
    CASE cls = "Minute" -> RatMul(value, <<60, 1>>)
      [] cls = "Celsius" -> RatAdd(value, <<273, 1>>)
      [] OTHER -> value

RawFromStandard(cls, value) ==
    CASE cls = "Minute" -> RatMul(value, <<1, 60>>)
      [] cls = "Celsius" -> RatAdd(value, <<-273, 1>>)
      [] OTHER -> value

\* MetaUnit.__new__: new_convert_to_standard
NewConvertToStandard(self, value) ==
    LET val == RatMul(value, Pow10(self.exponent))
    IN RawToStandard(self.cls, val)

\* MetaUnit.__new__: new_convert_from_standard
NewConvertFromStandard(self, value) ==
    LET val == RatMul(value, Pow10(-1 * self.exponent))
    IN RawFromStandard(self.cls, val)

\* The concrete base units outside unit.py supply their own value
\* conversion, reached already scaled; DimensionlessUnit and Unit do not.
SuppliesValueConversion(cls) == cls \in {"Meter", "Second", "Minute", "Celsius"}

\* value ** (1 / power) and value ** power, exact for power 1 and -1;
\* 0 ** -1 raises ZeroDivisionError.
PowerRaises(value, power) == power < 0 /\ value[1] = 0

RatPower(value, power) == IF power < 0 THEN Rat(value[2], value[1]) ELSE value

\* Unit.convert_value_to_standard / convert_value_from_standard: the loop
\* over self.powers from entry i; to = TRUE converts to standard.
\* six.iteritems(None) raises AttributeError.
RECURSIVE ConvertValueLoop(_, _, _, _)
ConvertValue(self, value, to) ==
    IF SuppliesValueConversion(self.cls)
    THEN [raised |-> FALSE,
          val |-> IF to THEN NewConvertToStandard(self, value)
                  ELSE NewConvertFromStandard(self, value)]
    ELSE IF ~self.hasPowers
    THEN [raised |-> TRUE, val |-> value]
    ELSE ConvertValueLoop(self, [raised |-> FALSE, val |-> value], to, 1)

ConvertValueLoop(self, acc, to, i) ==
    IF i > Len(self.powers) \/ acc.raised THEN acc
    ELSE LET unit == self.powers[i].key
             power == self.powers[i].val
         IN IF PowerRaises(acc.val, power)
            THEN [acc EXCEPT !.raised = TRUE]
            ELSE LET inner == ConvertValue(unit, RatPower(acc.val, power), to)
                 IN IF inner.raised \/ PowerRaises(inner.val, power)
                    THEN [acc EXCEPT !.raised = TRUE]
                    ELSE ConvertValueLoop(self,
                           [raised |-> FALSE, val |-> RatPower(inner.val, power)],
                           to, i + 1)

ConvertValueToStandard(self, value) == ConvertValue(self, value, TRUE)

ConvertValueFromStandard(self, value) == ConvertValue(self, value, FALSE)

FormulaClasses == {"DimensionlessUnit", "Minute", "Celsius"}

ConvBareUnits == {BaseUnit(c, e) : c \in FormulaClasses, e \in Exps}

\* Composite units whose entries have the powers 1 and -1.
ConvCompositeUnits ==
    {Pow(b, k, 1) : b \in {u \in ConvBareUnits : ~IsDimensionlessUnit(u)}, k \in {-1, 1}}

ConvValues == {<<n, 1>> : n \in (0 - MaxVal)..MaxVal}

ConvInit ==
    /\ conv \in {[u |-> u, v |-> v, r |-> v, raised |-> FALSE, op |-> "start"] :
                   u \in ConvBareUnits \cup ConvCompositeUnits, v \in ConvValues}
    /\ AlgebraIdle /\ PwIdle /\ FldIdle /\ CompIdle
    /\ ChainIdle /\ MemIdle /\ EqsIdle

\* r = u.convert_to_standard(v), u of a class that defines the formula
CallConvertToStandard ==
    /\ conv.op = "start" /\ ~conv.u.hasPowers
    /\ conv' = [conv EXCEPT !.r = NewConvertToStandard(conv.u, conv.v), !.op = "to"]
    /\ UNCHANGED <<x, y, last, pw, fld, comp, chain, mem, eqs>>

\* r = u.convert_from_standard(v)
CallConvertFromStandard ==
    /\ conv.op = "start" /\ ~conv.u.hasPowers
    /\ conv' = [conv EXCEPT !.r = NewConvertFromStandard(conv.u, conv.v), !.op = "from"]
    /\ UNCHANGED <<x, y, last, pw, fld, comp, chain, mem, eqs>>

\* r = u.convert_value_to_standard(v)
CallConvertValueToStandard ==
    /\ conv.op = "start"
    /\ LET res == ConvertValueToStandard(conv.u, conv.v)
       IN conv' = [conv EXCEPT !.r = res.val, !.raised = res.raised, !.op = "value_to"]
    /\ UNCHANGED <<x, y, last, pw, fld, comp, chain, mem, eqs>>

\* r = u.convert_value_from_standard(r)
CallConvertValueFromStandard ==
    /\ conv.op = "value_to" /\ ~conv.raised
    /\ LET res == ConvertValueFromStandard(conv.u, conv.r)
       IN conv' = [conv EXCEPT !.r = res.val, !.raised = res.raised, !.op = "round_trip"]
    /\ UNCHANGED <<x, y, last, pw, fld, comp, chain, mem, eqs>>

ConvNext ==
    \/ CallConvertToStandard
    \/ CallConvertFromStandard
    \/ CallConvertValueToStandard
    \/ CallConvertValueFromStandard

SpecConv == ConvInit /\ [][ConvNext]_vars

\* ---------------------------------------------------- Unit.composite_unit
\* new_initializer(self, exponent): it calls Unit.__init__ with
\* with_units.dimensions in the place of self and exponent in the place of
\* dimensions, so the attributes land on the Dimension object and the
\* exponent parameter of __init__ keeps its default 0.0.
NewInitializer(with_units, exponent) ==
    [self |-> NoAttributes,
     onDimension |-> [set |-> TRUE, dimensions |-> exponent, exponent |-> 0,
                      hasPowers |-> with_units.hasPowers, powers |-> with_units.powers]]

CompositeInit ==
    /\ comp \in {[w |-> w, arg |-> 0, default |-> TRUE, self |-> NoAttributes,
                  onDimension |-> [NoAttributes EXCEPT !.dimensions = 0], pc |-> "class"] :
                   w \in PowerOperands}
    /\ AlgebraIdle /\ PwIdle /\ FldIdle /\ ConvIdle
    /\ ChainIdle /\ MemIdle /\ EqsIdle

\* instance = Unit.composite_unit(w)()
InstantiateDefault ==
    /\ comp.pc = "class"
    /\ LET made == NewInitializer(comp.w, comp.w.exponent)
       IN comp' = [comp EXCEPT !.self = made.self, !.onDimension = made.onDimension,
                               !.default = TRUE, !.pc = "instance"]
    /\ UNCHANGED <<x, y, last, pw, fld, conv, chain, mem, eqs>>

\* instance = Unit.composite_unit(w)(exponent)
InstantiateWith(exponent) ==
    /\ comp.pc = "class"
    /\ LET made == NewInitializer(comp.w, exponent)
       IN comp' = [comp EXCEPT !.self = made.self, !.onDimension = made.onDimension,
                               !.arg = exponent, !.default = FALSE, !.pc = "instance"]
    /\ UNCHANGED <<x, y, last, pw, fld, conv, chain, mem, eqs>>

CompositeNext ==
    \/ InstantiateDefault
    \/ \E e \in Exps : InstantiateWith(e)

SpecComposite == CompositeInit /\ [][CompositeNext]_vars

\* ------------------------------------------- MetaUnit along a class chain
MaxDepth == 3

\* MetaUnit.__new__ runs for every class it creates.  The class at depth 1
\* defines the formula; a class at depth k > 1 only inherits, so hasattr
\* finds the attribute of its base, which is the wrapper made for the base,
\* and wraps it again.  self.cls names the class that defines the formula.
RECURSIVE ClassConvertToStandard(_, _, _)
ClassConvertToStandard(self, value, depth) ==
    IF depth = 1 THEN NewConvertToStandard(self, value)
    ELSE LET val == RatMul(value, Pow10(self.exponent))
         IN ClassConvertToStandard(self, val, depth - 1)

RECURSIVE ClassConvertFromStandard(_, _, _)
ClassConvertFromStandard(self, value, depth) ==
    IF depth = 1 THEN NewConvertFromStandard(self, value)
    ELSE LET val == RatMul(value, Pow10(-1 * self.exponent))
         IN ClassConvertFromStandard(self, val, depth - 1)

ChainInit ==
    /\ chain \in {[u |-> u, v |-> v, r |-> v, depth |-> k, op |-> "start"] :
                    u \in ConvBareUnits, v \in ConvValues, k \in 1..MaxDepth}
    /\ AlgebraIdle /\ PwIdle /\ FldIdle /\ ConvIdle /\ CompIdle /\ MemIdle /\ EqsIdle

\* r = u.convert_to_standard(v), type(u) at chain.depth
ChainConvertToStandard ==
    /\ chain.op = "start"
    /\ chain' = [chain EXCEPT !.r = ClassConvertToStandard(chain.u, chain.v, chain.depth),
                              !.op = "to"]
    /\ UNCHANGED <<x, y, last, pw, fld, conv, comp, mem, eqs>>

\* r = u.convert_from_standard(v), type(u) at chain.depth
ChainConvertFromStandard ==
    /\ chain.op = "start"
    /\ chain' = [chain EXCEPT !.r = ClassConvertFromStandard(chain.u, chain.v, chain.depth),
                              !.op = "from"]
    /\ UNCHANGED <<x, y, last, pw, fld, conv, comp, mem, eqs>>

ChainNext == ChainConvertToStandard \/ ChainConvertFromStandard

SpecChain == ChainInit /\ [][ChainNext]_vars

\* ------------------------------------------------- unit objects by address
\* The operators again, on objects held by reference: heap[a] is the object
\* at address a, [cls, dimensions, exponent, hasPowers, powers], and a
\* powers dict holds the addresses of its key objects.  Every assignment
\* to an attribute is a write to the heap; nothing is ever freed.
MaxOps == 2

HeapObject(u) ==
    [cls |-> u.cls, dimensions |-> u.dimensions, exponent |-> u.exponent,
     hasPowers |-> u.hasPowers, powers |-> << >>]

Alloc(h, obj) == [heap |-> Append(h, obj), ref |-> Len(h) + 1]

\* The name bound to the object itself, where copy.deepcopy makes a new one.
CopyByReference(h, a) == [heap |-> h, ref |-> a]

\* copy.deepcopy(h[a]); only units without powers are ever copied
DeepCopy(h, a) == Alloc(h, h[a])

\* <object>.exponent = e
SetExponent(h, a, e) == [h EXCEPT ![a].exponent = e]

\* k = copy.deepcopy(<object>); k.exponent = 0.0
NormalisedCopy(h, a) ==
    LET c == DeepCopy(h, a)
    IN [heap |-> SetExponent(c.heap, c.ref, 0), ref |-> c.ref]

\* The object at address a as __eq__ and __hash__ of a dict lookup read it
\* (looked-up objects have no powers).
HeapKey(h, a) ==
    [cls |-> h[a].cls, dimensions |-> h[a].dimensions, exponent |-> h[a].exponent,
     hasPowers |-> h[a].hasPowers, powers |-> NoPowers, addr |-> a]

DictView(h, d) == [i \in 1..Len(d) |-> [key |-> HeapKey(h, d[i].key), val |-> d[i].val]]

KeyRefs(dv) == [i \in 1..Len(dv) |-> [key |-> dv[i].key.addr, val |-> dv[i].val]]

HeapInDict(h, d, k) == InDict(DictView(h, d), HeapKey(h, k))

HeapDictGet(h, d, k) == DictGet(DictView(h, d), HeapKey(h, k))

HeapDictSet(h, d, k, v) == KeyRefs(DictSet(DictView(h, d), HeapKey(h, k), v))

HeapDictPop(h, d, k) == KeyRefs(DictPop(DictView(h, d), HeapKey(h, k)))

HeapTruthy(h, a) == h[a].hasPowers /\ Len(h[a].powers) > 0

\* self ** other
HeapPow(h, self, other) ==
    IF h[self].cls = "DimensionlessUnit" \/ other = 0
    THEN Alloc(h, HeapObject(DimensionlessUnitInit(h[self].exponent * other)))
    ELSE IF HeapTruthy(h, self)
    THEN Alloc(h, [cls |-> "Unit", dimensions |-> DimPow(h[self].dimensions, other),
                   exponent |-> h[self].exponent * other, hasPowers |-> TRUE,
                   powers |-> [i \in 1..Len(h[self].powers) |->
                                 [h[self].powers[i] EXCEPT !.val = @ * other]]])
    ELSE LET new_key == NormalisedCopy(h, self)
             g == new_key.heap
         IN Alloc(g, [cls |-> "Unit", dimensions |-> DimPow(g[self].dimensions, other),
                      exponent |-> g[self].exponent * other, hasPowers |-> TRUE,
                      powers |-> << [key |-> new_key.ref, val |-> other] >>])

\* __mul__, first half: acc = [heap, powers, nv, raised]
RECURSIVE HeapMulSelfLoop(_, _, _)
HeapMulSelfLoop(acc, items, i) ==
    IF i > Len(items) THEN acc
    ELSE LET key == items[i].key
             powers == HeapDictSet(acc.heap, acc.powers, key, items[i].val)
             normalised_key == NormalisedCopy(acc.heap, key)
             g == normalised_key.heap
         IN HeapMulSelfLoop(
              [acc EXCEPT !.heap = g, !.powers = powers,
                          !.nv = HeapDictSet(g, acc.nv, normalised_key.ref, g[key].exponent)],
              items, i + 1)

HeapMulSelfPart(h, self) ==
    LET acc == [heap |-> h, powers |-> << >>, nv |-> << >>, raised |-> FALSE]
    IN IF HeapTruthy(h, self) THEN HeapMulSelfLoop(acc, h[self].powers, 1)
       ELSE IF h[self].cls # "DimensionlessUnit"
       THEN LET new_key == NormalisedCopy(h, self)
                g == new_key.heap
            IN [acc EXCEPT !.heap = g,
                           !.powers = << [key |-> new_key.ref, val |-> 1] >>,
                           !.nv = << [key |-> new_key.ref, val |-> g[self].exponent] >>]
       ELSE acc

\* __mul__, second half, other has powers
RECURSIVE HeapMulOtherLoop(_, _, _)
HeapMulOtherLoop(acc, items, i) ==
    IF i > Len(items) \/ acc.raised THEN acc
    ELSE LET key == items[i].key
             value == items[i].val
             normalised_key == NormalisedCopy(acc.heap, key)
             g == normalised_key.heap
         IN IF HeapInDict(g, acc.nv, normalised_key.ref)
            THEN IF ~HeapInDict(g, acc.powers, key)
                 THEN [acc EXCEPT !.heap = g, !.raised = TRUE]
                 ELSE LET sum == HeapDictGet(g, acc.powers, key) + value
                          added == HeapDictSet(g, acc.powers, key, sum)
                      IN HeapMulOtherLoop(
                           [acc EXCEPT !.heap = g,
                                       !.powers = IF sum = 0 THEN HeapDictPop(g, added, key)
                                                  ELSE added],
                           items, i + 1)
            ELSE HeapMulOtherLoop(
                   [acc EXCEPT !.heap = g,
                               !.powers = HeapDictSet(g, acc.powers, normalised_key.ref, value)],
                   items, i + 1)

\* __mul__, second half, other is a bare unit
HeapMulOtherBare(acc, other) ==
    IF acc.heap[other].cls = "DimensionlessUnit" THEN acc
    ELSE LET normalised_other == NormalisedCopy(acc.heap, other)
             g == normalised_other.heap
             k == normalised_other.ref
         IN IF HeapInDict(g, acc.nv, k)
            THEN IF ~HeapInDict(g, acc.powers, k)
                 THEN [acc EXCEPT !.heap = g, !.raised = TRUE]
                 ELSE LET sum == HeapDictGet(g, acc.powers, k) + 1
                          added == HeapDictSet(g, acc.powers, k, sum)
                      IN IF sum = 0
                         THEN IF HeapInDict(g, added, other)
                              THEN [acc EXCEPT !.heap = g,
                                               !.powers = HeapDictPop(g, added, other)]
                              ELSE [acc EXCEPT !.heap = g, !.raised = TRUE]
                         ELSE [acc EXCEPT !.heap = g, !.powers = added]
            ELSE [acc EXCEPT !.heap = g, !.powers = HeapDictSet(g, acc.powers, k, 1)]

\* self * other: [heap, ref, raised]; ref = 0 when it raised
HeapMul(h, self, other) ==
    LET dimensions == DimMul(h[self].dimensions, h[other].dimensions)
        exponent == h[self].exponent + h[other].exponent
        first == HeapMulSelfPart(h, self)
        acc == IF HeapTruthy(first.heap, other)
               THEN HeapMulOtherLoop(first, first.heap[other].powers, 1)
               ELSE HeapMulOtherBare(first, other)
        new == IF Len(acc.powers) = 0
               THEN Alloc(acc.heap, HeapObject(DimensionlessUnitInit(exponent)))
               ELSE Alloc(acc.heap, [cls |-> "Unit", dimensions |-> dimensions,
                                     exponent |-> exponent, hasPowers |-> TRUE,
                                     powers |-> acc.powers])
    IN IF acc.raised THEN [heap |-> acc.heap, ref |-> 0, raised |-> TRUE]
       ELSE [heap |-> new.heap, ref |-> new.ref, raised |-> FALSE]

\* self / other
HeapDiv(h, self, other) ==
    LET other_inverted == HeapPow(h, other, -1)
    IN HeapMul(other_inverted.heap, self, other_inverted.ref)

\* self.__eq__(other): [heap, res]
HeapEq(h, self, other) ==
    IF HeapTruthy(h, self)
    THEN IF HeapTruthy(h, other)
         THEN [heap |-> h,
               res |-> /\ DictEq(DictView(h, h[self].powers), DictView(h, h[other].powers))
                       /\ h[self].exponent = h[other].exponent]
         ELSE LET raised == HeapPow(h, other, 1)
                  g == raised.heap
              IN [heap |-> g,
                  res |-> /\ g[raised.ref].hasPowers
                          /\ DictEq(DictView(g, g[self].powers),
                                    DictView(g, g[raised.ref].powers))]
    ELSE IF HeapTruthy(h, other)
    THEN [heap |-> HeapPow(h, self, 1).heap, res |-> FALSE]
    ELSE [heap |-> h,
          res |-> /\ h[self].cls = h[other].cls
                  /\ h[self].exponent = h[other].exponent
                  /\ DimEq(h[self].dimensions, h[other].dimensions)]

\* a == b
HeapEquals(h, a, b) ==
    IF IsProperSubclass(h[b].cls, h[a].cls) THEN HeapEq(h, b, a) ELSE HeapEq(h, a, b)

\* UnitType.serialize(value): str(value ** 1.0); __str__ only reads
HeapSerialize(h, value) == HeapPow(h, value, 1).heap

\* The exponents the two units are constructed with and the powers they
\* are raised to.
HeapExps == {0, MaxExp}

HeapPowArgs == {-1, 1, MaxN}

\* mem: two bare units are constructed, then operators are applied to the
\* objects x and y refer to; the result, when there is one, is bound to x.
HeapInit ==
    /\ mem \in {[heap |-> << HeapObject(BaseUnit(c1, e1)), HeapObject(BaseUnit(c2, e2)) >>,
                 x |-> 1, y |-> 2, op |-> "start", ops |-> 0] :
                  c1 \in BaseClasses \cup {"DimensionlessUnit"}, e1 \in HeapExps,
                  c2 \in BaseClasses \cup {"DimensionlessUnit"}, e2 \in HeapExps}
    /\ AlgebraIdle /\ PwIdle /\ FldIdle /\ ConvIdle /\ CompIdle /\ ChainIdle /\ EqsIdle

Operands == {mem.x, mem.y}

HeapMulStep(a, b) ==
    LET r == HeapMul(mem.heap, a, b)
    IN /\ mem.op # "idle"
       /\ mem.ops < MaxOps
       /\ mem' = [mem EXCEPT !.heap = r.heap,
                             !.x = IF r.raised THEN @ ELSE r.ref,
                             !.op = IF r.raised THEN "mul raised" ELSE "mul",
                             !.ops = @ + 1]
       /\ UNCHANGED <<x, y, last, pw, fld, conv, comp, chain, eqs>>

HeapDivStep(a, b) ==
    LET r == HeapDiv(mem.heap, a, b)
    IN /\ mem.op # "idle"
       /\ mem.ops < MaxOps
       /\ mem' = [mem EXCEPT !.heap = r.heap,
                             !.x = IF r.raised THEN @ ELSE r.ref,
                             !.op = IF r.raised THEN "div raised" ELSE "div",
                             !.ops = @ + 1]
       /\ UNCHANGED <<x, y, last, pw, fld, conv, comp, chain, eqs>>

HeapPowStep(a, n) ==
    LET r == HeapPow(mem.heap, a, n)
    IN /\ mem.op # "idle"
       /\ mem.ops < MaxOps
       /\ mem' = [mem EXCEPT !.heap = r.heap, !.x = r.ref, !.op = "pow", !.ops = @ + 1]
       /\ UNCHANGED <<x, y, last, pw, fld, conv, comp, chain, eqs>>

HeapEqualsStep(a, b) ==
    LET r == HeapEquals(mem.heap, a, b)
    IN /\ mem.op # "idle"
       /\ mem.ops < MaxOps
       /\ mem' = [mem EXCEPT !.heap = r.heap, !.op = IF r.res THEN "equal" ELSE "unequal",
                             !.ops = @ + 1]
       /\ UNCHANGED <<x, y, last, pw, fld, conv, comp, chain, eqs>>

HeapSerializeStep(a) ==
    LET g == HeapSerialize(mem.heap, a)
    IN /\ mem.op # "idle"
       /\ mem.ops < MaxOps
       /\ mem' = [mem EXCEPT !.heap = g, !.op = "serialize", !.ops = @ + 1]
       /\ UNCHANGED <<x, y, last, pw, fld, conv, comp, chain, eqs>>

HeapNext ==
    \/ \E a \in Operands, b \in Operands : HeapMulStep(a, b)
    \/ \E a \in Operands, b \in Operands : HeapDivStep(a, b)
    \/ \E a \in Operands, n \in HeapPowArgs : HeapPowStep(a, n)
    \/ \E a \in Operands, b \in Operands : HeapEqualsStep(a, b)
    \/ \E a \in Operands : HeapSerializeStep(a)

SpecHeap == HeapInit /\ [][HeapNext]_vars

\* ------------------------------------------------------ a == b and b == a
\* A one-entry unit declared by hand, after the pattern of SpeedUnit in the
\* class docstring: a subclass of Unit whose __init__ passes Length() and
\* powers = {Meter(): 1.0}.
LengthUnitInit(a) ==
    [UnitInit("LengthUnit", BaseDim("Length"), 0, TRUE,
              << [key |-> Normalise(BaseUnit("Meter", 0), a), val |-> 1] >>)
     EXCEPT !.cls = "LengthUnit"]

EqOperands == PowerOperands \cup {LengthUnitInit(1)}

EqInit ==
    /\ eqs \in {[a |-> a, b |-> b, ab |-> FALSE, ba |-> FALSE, pc |-> "start"] :
                  a \in EqOperands, b \in EqOperands}
    /\ AlgebraIdle /\ PwIdle /\ FldIdle /\ ConvIdle /\ CompIdle /\ ChainIdle /\ MemIdle

\* a.__eq__(b) and b.__eq__(a)
CompareByMethod ==
    /\ eqs.pc = "start"
    /\ eqs' = [eqs EXCEPT !.ab = Eq(eqs.a, eqs.b), !.ba = Eq(eqs.b, eqs.a),
                          !.pc = "method"]
    /\ UNCHANGED <<x, y, last, pw, fld, conv, comp, chain, mem>>

\* a == b and b == a
CompareByOperator ==
    /\ eqs.pc = "start"
    /\ eqs' = [eqs EXCEPT !.ab = Equals(eqs.a, eqs.b), !.ba = Equals(eqs.b, eqs.a),
                          !.pc = "operator"]
    /\ UNCHANGED <<x, y, last, pw, fld, conv, comp, chain, mem>>

EqNext == CompareByMethod \/ CompareByOperator

SpecEq == EqInit /\ [][EqNext]_vars

\* ================================================================= claims
Regs == {x, y}

\* Built from base units by the operators (not declared by hand).
OperatorBuilt(u) == u.cls # "SpeedUnit"

\* The canonical composition map as the set of its entries; a bare unit
\* counts as the one entry {itself with exponent zeroed: 1}.
CanonMap(u) ==
    IF Truthy(u)
    THEN {<<u.powers[i].key.cls, u.powers[i].key.dimensions, u.powers[i].val>> :
            i \in 1..Len(u.powers)}
    ELSE {<<u.cls, u.dimensions, 1>>}

\* C1: for operator-built units a and b, a == b is true if and only if
\* their canonical composition maps are equal and their decimal exponents
\* are equal, however either side was built.
C1_EqualsIffCanonical ==
    (OperatorBuilt(x) /\ OperatorBuilt(y)) =>
        (Equals(x, y) <=> (CanonMap(x) = CanonMap(y) /\ x.exponent = y.exponent))

\* C2: whenever two units compare equal their hashes are equal.
C2_EqualImpliesSameHash ==
    Equals(x, y) => Hash(x) = Hash(y)

NoZeroEntry(u) == \A i \in 1..Len(u.powers) : u.powers[i].val # 0

NoDimensionlessKey(u) ==
    \A i \in 1..Len(u.powers) : ~IsDimensionlessUnit(u.powers[i].key)

\* C3: no unit built by the operators holds a zero-valued entry or a
\* DimensionlessUnit key, and a multiplication of two such units completes
\* without error.
C3_MulCompletesAndCancels ==
    /\ \A u \in Regs : NoZeroEntry(u) /\ NoDimensionlessKey(u)
    /\ (OperatorBuilt(x) /\ OperatorBuilt(y)) => ~MulRaises(x, y)

\* C4: for every unit u whose dimension is not Dimensionless, u / u
\* completes and is the DimensionlessUnit with exponent 0, and compares
\* equal to DimensionlessUnit().
C4_SelfDivisionIsDimensionless ==
    \A u \in Regs :
        ~DimEq(u.dimensions, Dimensionless) =>
            /\ ~DivRaises(u, u)
            /\ LET quotient == Div(u, u, FreeAddr)
               IN /\ quotient = DimensionlessUnitInit(0)
                  /\ Equals(quotient, DimensionlessUnitInit(0))

\* A division has just cancelled every factor of a unit with a dimension.
C4_Witness ==
    /\ last = [op |-> "div", raised |-> FALSE]
    /\ x = DimensionlessUnitInit(0)
    /\ Len(y.powers) = 2 /\ y.exponent # 0
    /\ ~DimEq(y.dimensions, Dimensionless)

\* C5: for every unit u, u * DimensionlessUnit() == u and u ** 1 == u.
C5_Identity ==
    \A u \in Regs :
        /\ ~MulRaises(u, DimensionlessUnitInit(0))
        /\ Equals(Mul(u, DimensionlessUnitInit(0), FreeAddr), u)
        /\ Equals(Pow(u, 1, FreeAddr), u)

SamePowers(a, b) ==
    /\ a.hasPowers = b.hasPowers
    /\ DictEq(a.powers, b.powers)

\* C6: for every unit u and all integers m and n, (u ** m) ** n equals
\* u ** (m * n): the two compare equal and their composition powers,
\* decimal exponents and dimensions agree.
C6_PowerComposition ==
    pw.pc = "second" =>
        LET once == Pow(pw.u, pw.m * pw.n, Len(pw.u.powers) + 1)
        IN /\ Equals(pw.r, once)
           /\ SamePowers(pw.r, once)
           /\ pw.r.exponent = once.exponent
           /\ DimEq(pw.r.dimensions, once.dimensions)

\* A bare unit with a decimal exponent has been raised to -2 and then to 2.
C6_Witness ==
    /\ pw.pc = "second"
    /\ pw.u = BaseUnit("Meter", 1)
    /\ pw.m = -2 /\ pw.n = 2
    /\ pw.r.exponent = -4 /\ Len(pw.r.powers) = 1 /\ pw.r.powers[1].val = -4

\* C7: after any sequence of assignments the stored value is None or the
\* value assigned last; it is not None only if that value is a Unit whose
\* dimensions equal the declared dimension of the record; a value without
\* a dimensions attribute, with other dimensions or that is no Unit leaves
\* None stored.
C7_FieldStoresMatchingUnitOrNone ==
    /\ fld.stored = None \/ fld.stored = fld.assigned
    /\ fld.stored # None =>
          /\ fld.assigned.kind = "Unit"
          /\ DimEq(fld.assigned.u.dimensions, fld.dimensions)
    /\ (\/ ~HasDimensionsAttr(fld.assigned)
        \/ ~DimEq(fld.assigned.u.dimensions, fld.dimensions)
        \/ fld.assigned.kind # "Unit") => fld.stored = None

\* A unit of another dimension was assigned over a stored unit.
C7_Witness ==
    /\ fld.before.kind = "Unit"
    /\ fld.assigned.kind = "Unit"
    /\ ~DimEq(fld.assigned.u.dimensions, fld.dimensions)
    /\ fld.stored = None

\* C8: for every base unit type with formula f and inverse g and every
\* decimal exponent e, convert_to_standard(v) is f(v * 10^e) and
\* convert_from_standard(s) is g(s) * 10^(-e).
C8_WrapperScalesBeforeAndAfter ==
    /\ conv.op = "to" =>
          conv.r = RawToStandard(conv.u.cls, RatMul(conv.v, Pow10(conv.u.exponent)))
    /\ conv.op = "from" =>
          conv.r = RatMul(RawFromStandard(conv.u.cls, conv.v), Pow10(0 - conv.u.exponent))

\* C9: for every base unit u and value v,
\* u.convert_value_from_standard(u.convert_value_to_standard(v)) completes
\* and is v.
C9_BaseUnitRoundTrip ==
    ~conv.u.hasPowers =>
        /\ conv.op = "value_to" => ~conv.raised
        /\ conv.op = "round_trip" => (~conv.raised /\ conv.r = conv.v)

\* C10: an instance of the class Unit.composite_unit(w) returns has the
\* dimensions and the powers of w, and the exponent of w when created
\* without arguments, the exponent x when created with x.
C10_CompositeUnitInstance ==
    comp.pc = "instance" =>
        /\ comp.self.set
        /\ DimEq(comp.self.dimensions, comp.w.dimensions)
        /\ SamePowers(comp.self, comp.w)
        /\ comp.self.exponent = (IF comp.default THEN comp.w.exponent ELSE comp.arg)

\* C11: on an instance of any class of a chain in which one class defines
\* the formula and the deeper ones inherit it, a conversion scales the
\* value by 10^e (10^(-e) from standard) once: the result is the one the
\* defining class gives, whatever the depth.
C11_ScaledOncePerCall ==
    /\ chain.op = "to" =>
          chain.r = RawToStandard(chain.u.cls, RatMul(chain.v, Pow10(chain.u.exponent)))
    /\ chain.op = "from" =>
          chain.r = RawFromStandard(chain.u.cls,
                                    RatMul(chain.v, Pow10(0 - chain.u.exponent)))

\* C12: multiply, divide, power, equals and serialization leave every
\* object that existed before the call as it was: its dimensions, its
\* exponent and its powers map, the key objects of that map included.
C12_OperandsNeverMutated ==
    [][\A a \in 1..Len(mem.heap) :
          a <= Len(mem'.heap) /\ mem'.heap[a] = mem.heap[a]]_vars

\* A product whose operand has a nonzero exponent: the key made for it is
\* another object, with exponent 0.
C12_Witness ==
    /\ mem.op \in {"mul", "div", "pow"}
    /\ mem.heap[mem.x].hasPowers
    /\ \E a \in 1..2, i \in 1..Len(mem.heap[mem.x].powers) :
          LET k == mem.heap[mem.x].powers[i].key
          IN /\ mem.heap[a].exponent # 0
             /\ k # a
             /\ mem.heap[k].cls = mem.heap[a].cls
             /\ mem.heap[k].exponent = 0

\* C13: equality is symmetric: comparing a with b and b with a gives the
\* same answer, for bare units and composites alike.
C13_EqualsSymmetric ==
    eqs.pc \in {"method", "operator"} => eqs.ab = eqs.ba

\* C14: for a composite c over units with multiplicative conversions,
\* c.convert_value_to_standard(v) is 10^(c.exponent) times what the
\* composite with the same powers and exponent 0 gives for v.
C14_CompositeExponentScales ==
    (/\ conv.op = "value_to"
     /\ Truthy(conv.u)
     /\ ~conv.raised
     /\ \A i \in 1..Len(conv.u.powers) : conv.u.powers[i].key.cls = "Minute")
    => conv.r = RatMul(Pow10(conv.u.exponent),
                       ConvertValueToStandard([conv.u EXCEPT !.exponent = 0], conv.v).val)

====
